---- MODULE Spec2Model ----
(***************************************************************************)
(* Model of the chat component of the PredictAid dashboard                 *)
(* (src/src/components/DisasterChatbot.tsx): the send handler handleSend   *)
(* and the streaming response assembler streamChat.                        *)
(*                                                                         *)
(* Text is a sequence of one-character strings.  The three fixed texts of  *)
(* the component (the greeting and the fallback message) are kept as a     *)
(* one-element sequence holding the whole literal: no code inspects them   *)
(* character by character.                                                 *)
(* The response body is a sequence of bytes: an ASCII character is its own *)
(* byte, the two-byte character "uE9" is the bytes "xC3" "xA9".            *)
(***************************************************************************)
EXTENDS Integers, Sequences, FiniteSets, TLC

\* ---------------------------------------------------------------- bounds
MaxSends == 2      \* accepted sends (streamChat invocations) per run
MaxChunk == 2      \* a read delivers 1..MaxChunk bytes, BurstChunk bytes, or all that is left
BurstChunk == 50   \* a burst: more than one line of the stream in one read

\* ---------------------------------------------------------- text helpers
NL == "\n"
CR == "\r"

Min(a, b) == IF a < b THEN a ELSE b

\* F applied to the value of v: v is evaluated once, whatever F does with it
Bind(v, F(_)) == CHOOSE r \in {F(x) : x \in {v}} : TRUE

\* s.slice(from) with a 0-based index, as String.prototype.slice
SliceFrom(s, from) == SubSeq(s, from + 1, Len(s))

\* s.slice(0, to)
SliceTo(s, to) == SubSeq(s, 1, to)

\* s.indexOf(c): 0-based index of the first c, -1 when there is none
IndexOf(s, c) ==
  LET at == {i \in 1..Len(s) : s[i] = c} IN
    IF at = {} THEN -1 ELSE (CHOOSE i \in at : \A j \in at : i <= j) - 1

StartsWith(s, p) == Len(s) >= Len(p) /\ SubSeq(s, 1, Len(p)) = p

EndsWith(s, p) == Len(s) >= Len(p) /\ SubSeq(s, Len(s) - Len(p) + 1, Len(s)) = p

\* the white space String.prototype.trim removes (of the model's alphabet)
WhiteSpace == {" ", "\t", "\r", "\n"}

RECURSIVE TrimStart(_)
TrimStart(s) ==
  IF s # <<>> /\ Head(s) \in WhiteSpace THEN TrimStart(Tail(s)) ELSE s

RECURSIVE TrimEnd(_)
TrimEnd(s) ==
  IF s # <<>> /\ s[Len(s)] \in WhiteSpace THEN TrimEnd(SubSeq(s, 1, Len(s) - 1)) ELSE s

Trim(s) == TrimEnd(TrimStart(s))

\* the concatenation of the sequences ss[lo], ..., ss[hi]
RECURSIVE Concat(_, _, _)
Concat(ss, lo, hi) ==
  IF lo > hi THEN <<>>
  ELSE IF lo = hi THEN ss[lo]
  ELSE LET mid == (lo + hi) \div 2 IN Concat(ss, lo, mid) \o Concat(ss, mid + 1, hi)

Flatten(ss) == Concat(ss, 1, Len(ss))

\* ------------------------------------------------------------- TextDecoder
\* decoder.decode(value, {stream: true}): UTF-8 to text, an incomplete
\* multi-byte sequence at the end of a chunk is kept for the next call.
LeadBytes == {"xC3"}
ContBytes == {"xA9"}
Replacement == "uFFFD"

DecodeChar(lead, cont) == IF lead = "xC3" /\ cont = "xA9" THEN "uE9" ELSE Replacement

\* what a byte yields when no sequence is open
DecodeFresh(b) ==
  IF b \in LeadBytes THEN <<>>
  ELSE IF b \in ContBytes THEN <<Replacement>>
  ELSE <<b>>

\* what a byte yields after the open sequence `open` (<<>> or one lead byte)
DecodeAfter(open, b) ==
  IF open = <<>> THEN DecodeFresh(b)
  ELSE IF b \in ContBytes THEN <<DecodeChar(open[1], b)>>
  ELSE <<Replacement>> \o DecodeFresh(b)

\* decode(value) without {stream: true}: every chunk is decoded on its own,
\* an incomplete sequence at its end becomes a replacement character
DecodeNoStream(pending, bytes) ==
  LET open(j) == IF j > 1 /\ bytes[j - 1] \in LeadBytes THEN <<bytes[j - 1]>> ELSE <<>>
      out == [j \in 1..Len(bytes) |-> DecodeAfter(open(j), bytes[j])]
  IN [text |-> Flatten(out) \o (IF bytes # <<>> /\ bytes[Len(bytes)] \in LeadBytes
                                THEN <<Replacement>> ELSE <<>>),
      pending |-> <<>>]

\* result: [text, pending]; pending is <<>> or one lead byte.  A lead byte
\* is always the open sequence for the byte after it.
Decode(pending, bytes) ==
  LET open(j) == IF j = 1 THEN pending
                 ELSE IF bytes[j - 1] \in LeadBytes THEN <<bytes[j - 1]>> ELSE <<>>
      out == [j \in 1..Len(bytes) |-> DecodeAfter(open(j), bytes[j])]
  IN [text |-> Flatten(out),
      pending |-> IF bytes = <<>> THEN pending ELSE open(Len(bytes) + 1)]

\* the server's side of the same conversion
Utf8Char(c) == IF c = "uE9" THEN <<"xC3", "xA9">> ELSE <<c>>

Utf8(s) == Flatten([j \in 1..Len(s) |-> Utf8Char(s[j])])

\* ---------------------------------------------------------------- JSON
\* A JSON value is [t |-> tag, v |-> payload]: "str" (characters), "num"
\* (digits), "arr" (values), "obj" (<<key, value>> pairs in source order),
\* "true", "false", "null" and JavaScript's "undef" (payload <<>>).
Undef == [t |-> "undef", v |-> <<>>]
JsNull == [t |-> "null", v |-> <<>>]
Str(cs) == [t |-> "str", v |-> cs]

Digits == {"0", "1", "2", "3", "4", "5", "6", "7", "8", "9"}
JsonWs == {" ", "\t", "\r", "\n"}
Quote == "\""
BackSlash == "\\"

ParseFail == [ok |-> FALSE, v |-> Undef, i |-> 0]
ParseOk(val, next) == [ok |-> TRUE, v |-> val, i |-> next]

RECURSIVE SkipWs(_, _)
SkipWs(s, i) == IF i <= Len(s) /\ s[i] \in JsonWs THEN SkipWs(s, i + 1) ELSE i

Unescape(c) ==
  CASE c = "n" -> "\n" [] c = "t" -> "\t" [] c = "r" -> "\r" [] OTHER -> c

\* s[i] is the first character after the opening quote
RECURSIVE ScanString(_, _, _)
ScanString(s, i, acc) ==
  IF i > Len(s) THEN ParseFail
  ELSE IF s[i] = Quote THEN ParseOk(Str(acc), i + 1)
  ELSE IF s[i] = BackSlash THEN
    IF i + 1 <= Len(s) /\ s[i + 1] \in {Quote, BackSlash, "/", "n", "t", "r"}
    THEN ScanString(s, i + 2, Append(acc, Unescape(s[i + 1])))
    ELSE ParseFail
  ELSE IF s[i] \in {"\n", "\t", "\r"} THEN ParseFail
  ELSE ScanString(s, i + 1, Append(acc, s[i]))

RECURSIVE ScanDigits(_, _)
ScanDigits(s, i) == IF i <= Len(s) /\ s[i] \in Digits THEN ScanDigits(s, i + 1) ELSE i

ParseNumber(s, i) ==
  LET j == ScanDigits(s, i) IN
    IF s[i] = "0" /\ j > i + 1 THEN ParseFail
    ELSE ParseOk([t |-> "num", v |-> SubSeq(s, i, j - 1)], j)

ParseLiteral(s, i, word, val) ==
  IF SubSeq(s, i, Min(Len(s), i + Len(word) - 1)) = word
  THEN ParseOk(val, i + Len(word)) ELSE ParseFail

RECURSIVE ParseValue(_, _)
RECURSIVE ParseMembers(_, _, _)
RECURSIVE ParseElements(_, _, _)

ParseValue(s, i0) ==
  LET i == SkipWs(s, i0) IN
    IF i > Len(s) THEN ParseFail
    ELSE IF s[i] = "{" THEN
      LET j == SkipWs(s, i + 1) IN
        IF j <= Len(s) /\ s[j] = "}" THEN ParseOk([t |-> "obj", v |-> <<>>], j + 1)
        ELSE ParseMembers(s, j, <<>>)
    ELSE IF s[i] = "[" THEN
      LET j == SkipWs(s, i + 1) IN
        IF j <= Len(s) /\ s[j] = "]" THEN ParseOk([t |-> "arr", v |-> <<>>], j + 1)
        ELSE ParseElements(s, j, <<>>)
    ELSE IF s[i] = Quote THEN ScanString(s, i + 1, <<>>)
    ELSE IF s[i] \in Digits THEN ParseNumber(s, i)
    ELSE IF s[i] = "n" THEN ParseLiteral(s, i, <<"n", "u", "l", "l">>, JsNull)
    ELSE IF s[i] = "t" THEN ParseLiteral(s, i, <<"t", "r", "u", "e">>, [t |-> "true", v |-> <<>>])
    ELSE IF s[i] = "f" THEN ParseLiteral(s, i, <<"f", "a", "l", "s", "e">>, [t |-> "false", v |-> <<>>])
    ELSE ParseFail

\* what follows the member key: val in the object text s
AfterMember(s, acc, key, val) ==
  IF ~val.ok THEN ParseFail
  ELSE LET e == SkipWs(s, val.i)
           acc2 == Append(acc, <<key, val.v>>) IN
    IF e > Len(s) THEN ParseFail
    ELSE IF s[e] = "," THEN ParseMembers(s, e + 1, acc2)
    ELSE IF s[e] = "}" THEN ParseOk([t |-> "obj", v |-> acc2], e + 1)
    ELSE ParseFail

\* what follows the member key k of s, once the key has been scanned
AfterKey(s, acc, k) ==
  IF ~k.ok THEN ParseFail
  ELSE LET c == SkipWs(s, k.i) IN
    IF c > Len(s) \/ s[c] # ":" THEN ParseFail
    ELSE Bind(ParseValue(s, c + 1), LAMBDA val : AfterMember(s, acc, k.v.v, val))

\* s[i0] is where a "key": value member must start
ParseMembers(s, i0, acc) ==
  LET i == SkipWs(s, i0) IN
    IF i > Len(s) \/ s[i] # Quote THEN ParseFail
    ELSE Bind(ScanString(s, i + 1, <<>>), LAMBDA k : AfterKey(s, acc, k))

\* what follows the element val in the array text s
AfterElement(s, acc, val) ==
  IF ~val.ok THEN ParseFail
  ELSE LET e == SkipWs(s, val.i)
           acc2 == Append(acc, val.v) IN
    IF e > Len(s) THEN ParseFail
    ELSE IF s[e] = "," THEN ParseElements(s, e + 1, acc2)
    ELSE IF s[e] = "]" THEN ParseOk([t |-> "arr", v |-> acc2], e + 1)
    ELSE ParseFail

ParseElements(s, i0, acc) ==
  Bind(ParseValue(s, i0), LAMBDA val : AfterElement(s, acc, val))

\* the value parsed from all of s, unless text follows it
WholeText(s, r) ==
  IF r.ok /\ SkipWs(s, r.i) > Len(s) THEN [ok |-> TRUE, v |-> r.v]
  ELSE [ok |-> FALSE, v |-> Undef]

\* JSON.parse(s): ok = FALSE stands for the SyntaxError it throws
JsonParse(s) == Bind(ParseValue(s, 1), LAMBDA r : WholeText(s, r))

\* ----------------------------------------------- JavaScript value access
Nullish(x) == x.t \in {"null", "undef"}

\* x.key for a property name the built-in prototypes do not define
RECURSIVE LookUp(_, _, _)
LookUp(pairs, key, n) ==
  IF n = 0 THEN Undef
  ELSE IF pairs[n][1] = key THEN pairs[n][2]
  ELSE LookUp(pairs, key, n - 1)

GetProp(x, key) == IF x.t = "obj" THEN LookUp(x.v, key, Len(x.v)) ELSE Undef

\* x[0]
GetIndex0(x) ==
  CASE x.t = "arr" -> IF Len(x.v) > 0 THEN x.v[1] ELSE Undef
    [] x.t = "str" -> IF Len(x.v) > 0 THEN Str(<<x.v[1]>>) ELSE Undef
    [] x.t = "obj" -> GetProp(x, <<"0">>)
    [] OTHER -> Undef

KeyChoices == <<"c", "h", "o", "i", "c", "e", "s">>
KeyDelta == <<"d", "e", "l", "t", "a">>
KeyContent == <<"c", "o", "n", "t", "e", "n", "t">>

\* parsed.choices?.[0]?.delta?.content; threw = the TypeError of reading
\* a property of null (JSON.parse never yields undefined)
DeltaContent(parsed) ==
  IF Nullish(parsed) THEN [threw |-> TRUE, v |-> Undef]
  ELSE LET choices == GetProp(parsed, KeyChoices)
           first == IF Nullish(choices) THEN Undef ELSE GetIndex0(choices)
           delta == IF Nullish(first) THEN Undef ELSE GetProp(first, KeyDelta)
           content == IF Nullish(delta) THEN Undef ELSE GetProp(delta, KeyContent)
       IN [threw |-> FALSE, v |-> content]

\* if (content)
RECURSIVE AllZero(_)
AllZero(ds) == ds = <<>> \/ (Head(ds) = "0" /\ AllZero(Tail(ds)))

\* a test against undefined alone: if (content !== undefined)
NotUndefined(x) == x.t # "undef"

\* the truthiness of a JSON value
Truthy(x) ==
  CASE x.t = "str" -> x.v # <<>>
    [] x.t = "num" -> ~AllZero(x.v)
    [] x.t \in {"true", "obj", "arr"} -> TRUE
    [] OTHER -> FALSE

\* the string that `assistantContent += content` appends
RECURSIVE ToStr(_)
RECURSIVE JoinStr(_, _)
ToStr(x) ==
  CASE x.t \in {"str", "num"} -> x.v
    [] x.t = "obj" -> <<"[object Object]">>
    [] x.t = "arr" -> JoinStr(x.v, 1)
    [] x.t = "null" -> <<"n", "u", "l", "l">>
    [] x.t = "undef" -> <<"undefined">>
    [] OTHER -> <<x.t>>

JoinStr(vs, n) ==
  IF n > Len(vs) THEN <<>>
  ELSE (IF n > 1 THEN <<",">> ELSE <<>>)
       \o (IF Nullish(vs[n]) THEN <<>> ELSE ToStr(vs[n]))
       \o JoinStr(vs, n + 1)

\* ------------------------------------------------------------ transcript
Greeting == <<"Hello! I'm your disaster help assistant. I can provide guidance on emergency situations, safety measures, evacuation procedures, and first aid. How can I help you today?">>
Fallback == <<"Sorry, I encountered an error. Please try again.">>

Msg(r, c) == [role |-> r, content |-> c]

\* an updater that appends a message for every delta
UpdateAssistantAppends(prev, assistantContent) ==
  Append(prev, Msg("assistant", assistantContent))

\* an updater that writes the reply over the last entry, whatever it is
UpdateAssistantOverLast(prev, assistantContent) ==
  [prev EXCEPT ![Len(prev)] = Msg("assistant", assistantContent)]

\* the updater handed to setMessages for a delta, applied to prev
UpdateAssistant(prev, assistantContent) ==
  IF Len(prev) > 0 /\ prev[Len(prev)].role = "assistant" /\ Len(prev) > 1
  THEN [prev EXCEPT ![Len(prev)].content = assistantContent]
  ELSE Append(prev, Msg("assistant", assistantContent))

\* an updater that puts the fallback in the place of the last entry
FallbackOverLast(prev) == [prev EXCEPT ![Len(prev)] = Msg("assistant", Fallback)]

\* the updater of the catch block of handleSend
AppendFallback(prev) == Append(prev, Msg("assistant", Fallback))

\* ------------------------------------------------- line extraction loop
DataPrefix == <<"d", "a", "t", "a", ":", " ">>
DoneSentinel == <<"[", "D", "O", "N", "E", "]">>

\* the condition of the inner while: textBuffer.indexOf("\n") !== -1
HasLine(textBuffer) == IndexOf(textBuffer, NL) # -1

StripCR(line) == IF EndsWith(line, <<CR>>) THEN SubSeq(line, 1, Len(line) - 1) ELSE line

\* the first `continue` test alone
IsSkippedNoPrefix(line) ==
  \/ StartsWith(line, <<":">>)
  \/ Trim(line) = <<>>

\* the two `continue` tests
IsSkipped(line) ==
  \/ StartsWith(line, <<":">>)
  \/ Trim(line) = <<>>
  \/ ~StartsWith(line, DataPrefix)

\* assistantContent = content
AccumulateLast(assistantContent, content) == ToStr(content)

\* assistantContent += content
Accumulate(assistantContent, content) == assistantContent \o ToStr(content)

\* a catch block that gives the line up
RequeueDrops(line, textBuffer) == textBuffer

\* the catch block: put the line back in front of the buffer
Requeue(line, textBuffer) == line \o <<NL>> \o textBuffer

\* The try block for the data line `line`, taken from loop state st, whose
\* payload JSON.parse answered with parsed; taken is st without the line.
TryBlock(st, taken, line, parsed) ==
  LET content == DeltaContent(parsed.v) IN
    IF ~parsed.ok \/ content.threw
      THEN [st |-> [taken EXCEPT !.textBuffer = Requeue(line, taken.textBuffer)],
            line |-> line, kind |-> "requeue", brk |-> TRUE]
    ELSE IF Truthy(content.v)
      THEN LET ac == Accumulate(st.assistantContent, content.v) IN
           [st |-> [taken EXCEPT !.assistantContent = ac,
                                 !.msgs = UpdateAssistant(st.msgs, ac)],
            line |-> line, kind |-> "delta", brk |-> FALSE]
    ELSE [st |-> taken, line |-> line, kind |-> "nocontent", brk |-> FALSE]

\* The body of the inner while for the line `line` (carriage return
\* stripped) just sliced off st.textBuffer, rest being what is left of it.
OnLine(st, line, rest) ==
  LET taken == [st EXCEPT !.textBuffer = rest]
      jsonStr == Trim(SliceFrom(line, 6))
  IN
    IF IsSkipped(line) THEN [st |-> taken, line |-> line, kind |-> "skip", brk |-> FALSE]
    ELSE IF jsonStr = DoneSentinel
      THEN [st |-> [taken EXCEPT !.streamDone = TRUE], line |-> line, kind |-> "done", brk |-> TRUE]
    ELSE Bind(JsonParse(jsonStr), LAMBDA parsed : TryBlock(st, taken, line, parsed))

\* st.textBuffer cut at the newline found at newlineIndex
CutLine(st, newlineIndex) ==
  OnLine(st, StripCR(SliceTo(st.textBuffer, newlineIndex)),
         SliceFrom(st.textBuffer, newlineIndex + 1))

\* One iteration of the inner while on the loop state
\* st = [textBuffer, assistantContent, streamDone, msgs]; brk = the iteration
\* ended in `break`.
LineStep(st) == Bind(IndexOf(st.textBuffer, NL), LAMBDA newlineIndex : CutLine(st, newlineIndex))

\* an `if` in the place of the inner while: one line per read
ExtractOneLine(st, log) ==
  IF ~HasLine(st.textBuffer) THEN [st |-> st, log |-> log]
  ELSE Bind(LineStep(st),
            LAMBDA r : [st |-> r.st,
                        log |-> Append(log, [line |-> r.line, kind |-> r.kind,
                                             pre |-> st, post |-> r.st])])

RECURSIVE ExtractLines(_, _)

\* the inner while after the iteration r on loop state st
AfterLine(st, log, r) ==
  LET log2 == Append(log, [line |-> r.line, kind |-> r.kind, pre |-> st, post |-> r.st])
  IN IF r.brk THEN [st |-> r.st, log |-> log2] ELSE ExtractLines(r.st, log2)

\* the inner while; log collects one entry per iteration
ExtractLines(st, log) ==
  IF ~HasLine(st.textBuffer) THEN [st |-> st, log |-> log]
  ELSE Bind(LineStep(st), LAMBDA r : AfterLine(st, log, r))

\* -------------------------------------------------- the response streams
\* What the chat endpoint sends is described line by line:
\* [k |-> kind, c |-> text, eol |-> line terminator].  Kinds: "delta" (a
\* chunk record with content c), "done" (the sentinel), "nocontent" (payload
\* c parses, no content), "null" (payload null), "bad" (payload c does not
\* parse), "comment", "blank", "field" (line text c, not a data line).
LF == <<NL>>
CRLF == <<CR, NL>>
NoEol == <<>>

JsonDeltaOpen == <<"{", "\"", "c", "h", "o", "i", "c", "e", "s", "\"", ":", "[", "{", "\"", "d", "e", "l", "t", "a", "\"", ":", "{", "\"", "c", "o", "n", "t", "e", "n", "t", "\"", ":", "\"">>
JsonDeltaClose == <<"\"", "}", "}", "]", "}">>

\* JSON.stringify of the endpoint for {choices: [{delta: {content: c}}]}
\* (the contents used need no escaping)
JsonDelta(c) == JsonDeltaOpen \o c \o JsonDeltaClose

Delta(c, eol) == [k |-> "delta", c |-> c, eol |-> eol]
Done(eol) == [k |-> "done", c |-> <<>>, eol |-> eol]
Line(k, c, eol) == [k |-> k, c |-> c, eol |-> eol]

DataKinds == {"delta", "done", "nocontent", "null", "bad"}

RenderLine(l) ==
  CASE l.k = "delta" -> DataPrefix \o JsonDelta(l.c) \o l.eol
    [] l.k = "done" -> DataPrefix \o DoneSentinel \o l.eol
    [] l.k \in {"nocontent", "null", "bad"} -> DataPrefix \o l.c \o l.eol
    [] OTHER -> l.c \o l.eol

RenderText(stream) == Flatten([j \in 1..Len(stream) |-> RenderLine(stream[j])])

\* the bytes of the response body
Body(stream) == Utf8(RenderText(stream))

PayloadEmptyObject == <<"{", "}">>
PayloadEmptyChoices == <<"{", "\"", "c", "h", "o", "i", "c", "e", "s", "\"", ":", "[", "]", "}">>
PayloadNoDelta == <<"{", "\"", "c", "h", "o", "i", "c", "e", "s", "\"", ":", "[", "{", "}", "]", "}">>
PayloadNoContent == <<"{", "\"", "c", "h", "o", "i", "c", "e", "s", "\"", ":", "[", "{", "\"", "d", "e", "l", "t", "a", "\"", ":", "{", "}", "}", "]", "}">>
PayloadNumber == <<"7">>
PayloadNull == <<"n", "u", "l", "l">>
PayloadCut == <<"{", "\"", "c", "h", "o", "i", "c", "e", "s", "\"", ":">>

\* the responses of the first exchange
Streams ==
  { <<Delta(<<"H", "e", "l">>, LF), Delta(<<"l", "o">>, LF), Done(LF)>>,
    <<Done(LF), Delta(<<"x">>, LF)>>,
    <<Line("comment", <<":", "k">>, LF), Line("blank", <<>>, CRLF),
      Line("field", <<"i", "d", ":", "1">>, LF), Delta(<<"a">>, LF)>>,
    <<Line("nocontent", PayloadEmptyObject, LF), Line("nocontent", PayloadEmptyChoices, LF),
      Line("nocontent", PayloadNumber, LF), Delta(<<"a">>, LF), Done(LF)>>,
    <<Line("nocontent", PayloadNoDelta, LF), Line("nocontent", PayloadNoContent, LF),
      Delta(<<>>, LF), Delta(<<"b">>, LF)>>,
    <<Line("null", PayloadNull, LF), Delta(<<"a">>, LF), Done(LF)>>,
    <<Delta(<<"a">>, LF), Line("bad", PayloadCut, LF), Delta(<<"b">>, LF), Done(LF)>>,
    <<Delta(<<"uE9">>, CRLF), Done(CRLF)>>,
    <<Delta(<<"a">>, LF), Delta(<<"b">>, NoEol)>>,
    <<Line("comment", <<":", "k">>, LF), Delta(<<>>, LF), Done(LF)>>,
    <<>> }

\* the responses of the later exchanges
FollowUps ==
  { <<Delta(<<"c">>, LF), Done(LF)>>,
    <<Line("bad", PayloadCut, LF)>> }

StreamsFor(i) == IF i = 1 THEN Streams ELSE FollowUps

\* the body of a response with an error status: a JSON object, no newline
ErrorBody == <<Line("field", <<"{", "\"", "e", "\"", ":", "1", "}">>, NoEol)>>

\* the responses fetch can resolve with for invocation i: ok is resp.ok,
\* body is whether resp.body is there
Responses(i) ==
  {[ok |-> TRUE, body |-> TRUE, stream |-> d] : d \in StreamsFor(i)}
    \cup {[ok |-> FALSE, body |-> TRUE, stream |-> ErrorBody],
          [ok |-> FALSE, body |-> FALSE, stream |-> <<>>],
          [ok |-> TRUE, body |-> FALSE, stream |-> <<>>]}

\* what the user can type
Inputs == { <<" ">>, <<"h", "i">> }

\* ------------------------------------------------------------------ state
VARIABLES
  messages,    \* useState: the transcript
  input,       \* useState: the text of the input box
  isLoading,   \* useState: the busy flag
  calls,       \* the streamChat invocations, in the order they were started
  settled,     \* parity of the number of promises (fetch, read) settled so far
  sendCalled,  \* the last step was a call of handleSend
  mounted      \* the component is mounted

\* The weather view (Weather) is a component of its own: it shares no state
\* with the chat, so each of the two is explored with the other one at rest.
VARIABLES
  location,          \* useState: <<>> for null, else <<[lat, lon, city]>>
  loading,           \* useState: the loading flag of the weather view
  weatherData,       \* useState: <<>> for null, else <<the current weather>>
  forecast,          \* useState: the forecast days
  lookup,            \* getCurrentLocation: where it stands and what it got
  fetches,           \* the fetchWeatherData invocations, in the order started
  setLocationCalls   \* the values setLocation was called with, in order

chatVars == <<messages, input, isLoading, calls, settled, sendCalled, mounted>>
weatherVars == <<location, loading, weatherData, forecast, lookup, fetches, setLocationCalls>>

vars == <<chatVars, weatherVars>>

\* the weather view after construction: the mount effect has not run yet
WeatherInit ==
  /\ location = <<>>
  /\ loading = TRUE
  /\ weatherData = <<>>
  /\ forecast = <<>>
  /\ lookup = [pc |-> "mount", outcome |-> "none", coords |-> <<>>, body |-> <<>>]
  /\ fetches = <<>>
  /\ setLocationCalls = <<>>

\* One invocation of streamChat (started by handleSend):
\*   pc        "fetch" awaiting the response, "read" awaiting reader.read(),
\*             "done" returned or threw, "gone" ended before a later send
\*   outcome   "none" while running, "ok" returned, "startError" threw at the
\*             handshake, "readError" a read threw
\*   userMessage, request   the argument and the messages of the POST body
\*   resp                   whether a response has arrived, its ok and whether it
\*                          has a body
\*   stream, rest           what the endpoint answers and the bytes not yet read
\*   pending                the incomplete byte sequence kept by the decoder
\*   textBuffer, streamDone, assistantContent   the locals of the read loop
\*   hasRead                a reader.read() has settled
\*   split                  how the reads so far have cut the text: "payload"
\*                          once a read ended inside the JSON payload of a data
\*                          line, "line" once one ended inside a line, else "none"
\*   log                    the iterations of the inner loop after the last read
NoResponse == [arrived |-> FALSE, ok |-> FALSE, body |-> FALSE]

\* a request body built from the transcript of the render alone
NewCallStale(closureMessages, userMessage) ==
  [ pc |-> "fetch", outcome |-> "none",
    userMessage |-> userMessage,
    request |-> closureMessages,
    resp |-> NoResponse,
    stream |-> <<>>, rest |-> <<>>, pending |-> <<>>,
    textBuffer |-> <<>>, streamDone |-> FALSE, assistantContent |-> <<>>,
    hasRead |-> FALSE, split |-> "none", log |-> <<>> ]

NewCall(closureMessages, userMessage) ==
  [ pc |-> "fetch", outcome |-> "none",
    userMessage |-> userMessage,
    request |-> Append(closureMessages, userMessage),
    resp |-> NoResponse,
    stream |-> <<>>, rest |-> <<>>, pending |-> <<>>,
    textBuffer |-> <<>>, streamDone |-> FALSE, assistantContent |-> <<>>,
    hasRead |-> FALSE, split |-> "none", log |-> <<>> ]

\* the response and the locals of an invocation that has ended are gone
Retire(c) ==
  IF c.pc = "done"
  THEN [c EXCEPT !.pc = "gone", !.resp = NoResponse, !.stream = <<>>, !.rest = <<>>, !.pending = <<>>,
                 !.textBuffer = <<>>, !.hasRead = FALSE, !.split = "none", !.log = <<>>]
  ELSE c

Init ==
  /\ messages = <<Msg("assistant", Greeting)>>
  /\ input = <<>>
  /\ isLoading = FALSE
  /\ calls = <<>>
  /\ settled = FALSE
  /\ sendCalled = FALSE
  /\ mounted = TRUE
  /\ WeatherInit

\* onChange of the input box
SetInput(text) ==
  /\ mounted
  /\ input' = text
  /\ sendCalled' = FALSE
  /\ UNCHANGED <<messages, isLoading, calls, settled, mounted, weatherVars>>

\* a guard that tests the input only
SendRejectedBlankOnly(inp, busy) == Trim(inp) = <<>>

\* a guard that tests the busy flag only
SendRejectedBusyOnly(inp, busy) == busy

\* the first line of handleSend: if (!input.trim() || isLoading) return
SendRejected(inp, busy) == Trim(inp) = <<>> \/ busy

\* handleSend up to its await (streamChat runs up to the await of fetch)
HandleSend ==
  /\ mounted
  /\ sendCalled' = TRUE
  /\ UNCHANGED <<settled, mounted, weatherVars>>
  /\ IF SendRejected(input, isLoading)
     THEN UNCHANGED <<messages, input, isLoading, calls>>
     ELSE LET userMessage == Msg("user", input) IN
       /\ Len(calls) < MaxSends
       /\ messages' = Append(messages, userMessage)
       /\ input' = <<>>
       /\ isLoading' = TRUE
       /\ calls' = Append([j \in 1..Len(calls) |-> Retire(calls[j])],
                          NewCall(messages, userMessage))

\* the catch and finally blocks of handleSend after streamChat threw, c being
\* the invocation as the throw left it
Throw(i, c, what) ==
  /\ messages' = AppendFallback(messages)
  /\ isLoading' = FALSE
  /\ calls' = [calls EXCEPT ![i] = [c EXCEPT !.pc = "done", !.outcome = what]]
  /\ settled' = ~settled
  /\ sendCalled' = FALSE
  /\ UNCHANGED <<input, mounted, weatherVars>>

\* a test that forgets the status
StartFailsOnBody(resp) == ~resp.body

\* if (!resp.ok || !resp.body) throw new Error("Failed to start stream")
StartFails(resp) == ~resp.ok \/ ~resp.body

Arrived(resp) == [arrived |-> TRUE, ok |-> resp.ok, body |-> resp.body]

\* fetch resolves with a response that passes the test: the reader is taken
\* and the first read is awaited
HandshakeOk(i) ==
  /\ calls[i].pc = "fetch"
  /\ \E resp \in Responses(i) :
       /\ ~StartFails(resp)
       /\ resp.body
       /\ calls' = [calls EXCEPT ![i].pc = "read", ![i].resp = Arrived(resp),
                                 ![i].stream = resp.stream, ![i].rest = Body(resp.stream)]
  /\ settled' = ~settled
  /\ sendCalled' = FALSE
  /\ UNCHANGED <<messages, input, isLoading, mounted, weatherVars>>

\* fetch rejects, or it resolves with a response that fails the test (or, had
\* it passed without a body, fails at resp.body.getReader())
HandshakeFail(i) ==
  /\ calls[i].pc = "fetch"
  /\ \/ Throw(i, calls[i], "startError")
     \/ \E resp \in Responses(i) :
          /\ StartFails(resp) \/ ~resp.body
          /\ Throw(i, [calls[i] EXCEPT !.resp = Arrived(resp)], "startError")

\* the sizes of the chunk the next read may deliver
ChunkSizes(rest) ==
  {k \in (1..MaxChunk) \cup {BurstChunk} : k <= Len(rest)} \cup {Len(rest)}

\* textBuffer = decoder.decode(...): the text of the last chunk only
FeedOverwrites(textBuffer, text) == text

\* textBuffer += decoder.decode(value, { stream: true })
Feed(textBuffer, text) == textBuffer \o text

\* the text after the last newline of the buffer: the line still arriving
OpenLine(textBuffer) ==
  LET at == {i \in 1..Len(textBuffer) : textBuffer[i] = NL} IN
    IF at = {} THEN textBuffer
    ELSE SubSeq(textBuffer, (CHOOSE i \in at : \A j \in at : j <= i) + 1, Len(textBuffer))

\* where the chunk that was just read ended
CutKind(textBuffer) ==
  LET open == OpenLine(textBuffer) IN
    IF open = <<>> THEN "none"
    ELSE IF StartsWith(open, DataPrefix \o <<"{">>) /\ ~JsonParse(Trim(SliceFrom(open, 6))).ok
      THEN "payload"
    ELSE "line"

WorseCut(a, b) ==
  IF "payload" \in {a, b} THEN "payload" ELSE IF "line" \in {a, b} THEN "line" ELSE "none"

\* an outer while that does not test streamDone
LoopForever(streamDone) == TRUE

\* the condition of the outer while
LoopContinues(streamDone) == ~streamDone

\* the locals, the transcript and the continuation after the inner loop r
\* ran on the buffer fed with the decoded chunk of k bytes
AfterLoop(c, k, dec, fed, r) ==
  LET goOn == LoopContinues(r.st.streamDone) IN
    [msgs |-> r.st.msgs,
     goOn |-> goOn,
     call |-> [c EXCEPT !.rest = SubSeq(c.rest, k + 1, Len(c.rest)),
                        !.pending = dec.pending,
                        !.textBuffer = r.st.textBuffer,
                        !.assistantContent = r.st.assistantContent,
                        !.streamDone = r.st.streamDone,
                        !.hasRead = TRUE,
                        !.split = IF k < Len(c.rest) THEN WorseCut(c.split, CutKind(fed))
                                  ELSE c.split,
                        !.log = r.log,
                        !.pc = IF goOn THEN "read" ELSE "done",
                        !.outcome = IF goOn THEN "none" ELSE "ok"]]

\* the inner loop on the buffer after the decoded chunk dec was added
AfterDecode(c, msgs, k, dec) ==
  LET fed == Feed(c.textBuffer, dec.text) IN
    Bind(ExtractLines([textBuffer |-> fed,
                       assistantContent |-> c.assistantContent,
                       streamDone |-> c.streamDone,
                       msgs |-> msgs], <<>>),
         LAMBDA r : AfterLoop(c, k, dec, fed, r))

\* One iteration of the outer while for invocation c when reader.read()
\* settles with the first k bytes of c.rest: the new locals, the transcript
\* and whether the loop goes on.
ReadStep(c, msgs, k) ==
  Bind(Decode(c.pending, SubSeq(c.rest, 1, k)), LAMBDA dec : AfterDecode(c, msgs, k, dec))

\* reader.read() settles with a chunk: one iteration of the outer while and,
\* when the loop ends, the return of streamChat and the finally of handleSend
ReadChunk(i) ==
  /\ calls[i].pc = "read"
  /\ calls[i].rest # <<>>
  /\ \E k \in ChunkSizes(calls[i].rest) :
       \E r \in {ReadStep(calls[i], messages, k)} :
         /\ messages' = r.msgs
         /\ isLoading' = IF r.goOn THEN isLoading ELSE FALSE
         /\ calls' = [calls EXCEPT ![i] = r.call]
  /\ settled' = ~settled
  /\ sendCalled' = FALSE
  /\ UNCHANGED <<input, mounted, weatherVars>>

\* a loop that does not test `done` and reads again
ReadDoneIgnored(i) ==
  /\ calls[i].pc = "read"
  /\ calls[i].rest = <<>>
  /\ calls' = [calls EXCEPT ![i].hasRead = TRUE, ![i].log = <<>>]
  /\ settled' = ~settled
  /\ sendCalled' = FALSE
  /\ UNCHANGED <<messages, input, isLoading, mounted, weatherVars>>

\* an end of the body that handles what is left in textBuffer as a last line
ReadDoneFlushes(i) ==
  /\ calls[i].pc = "read"
  /\ calls[i].rest = <<>>
  /\ \E r \in {ExtractLines([textBuffer |-> calls[i].textBuffer \o <<NL>>,
                              assistantContent |-> calls[i].assistantContent,
                              streamDone |-> calls[i].streamDone,
                              msgs |-> messages], <<>>)} :
       /\ messages' = r.st.msgs
       /\ calls' = [calls EXCEPT ![i].pc = "done", ![i].outcome = "ok",
                                 ![i].hasRead = TRUE, ![i].log = <<>>,
                                 ![i].assistantContent = r.st.assistantContent]
  /\ isLoading' = FALSE
  /\ settled' = ~settled
  /\ sendCalled' = FALSE
  /\ UNCHANGED <<input, mounted, weatherVars>>

\* reader.read() settles with done: break, return, finally
ReadDone(i) ==
  /\ calls[i].pc = "read"
  /\ calls[i].rest = <<>>
  /\ isLoading' = FALSE
  /\ calls' = [calls EXCEPT ![i].pc = "done", ![i].outcome = "ok",
                            ![i].hasRead = TRUE, ![i].log = <<>>]
  /\ settled' = ~settled
  /\ sendCalled' = FALSE
  /\ UNCHANGED <<messages, input, mounted, weatherVars>>

\* reader.read() rejects
ReadError(i) ==
  /\ calls[i].pc = "read"
  /\ Throw(i, calls[i], "readError")

\* The view is left: the component has no effect cleanup and streamChat no
\* abort signal, so nothing but the user's actions ends here.  The input box
\* goes with the view; `messages` and `isLoading` stand from here on for what
\* the state setters are still told.
Unmount ==
  /\ mounted
  /\ mounted' = FALSE
  /\ input' = <<>>
  /\ sendCalled' = FALSE
  /\ UNCHANGED <<messages, isLoading, calls, settled, weatherVars>>

Next ==
  \/ \E text \in Inputs : SetInput(text)
  \/ HandleSend
  \/ Unmount
  \/ \E i \in 1..Len(calls) : HandshakeOk(i)
  \/ \E i \in 1..Len(calls) : HandshakeFail(i)
  \/ \E i \in 1..Len(calls) : ReadChunk(i)
  \/ \E i \in 1..Len(calls) : ReadDone(i)
  \/ \E i \in 1..Len(calls) : ReadError(i)

Spec == Init /\ [][Next]_vars

\* the invocations that have not ended
InFlight == {i \in 1..Len(calls) : calls[i].pc \in {"fetch", "read"}}

\* A promise of an invocation in flight settles: the steps HandshakeOk,
\* HandshakeFail, ReadChunk, ReadDone and ReadError, and only they, flip
\* `settled`, and one of them is possible whenever an invocation is in flight.
Settle == InFlight # {} /\ settled' = ~settled

\* The network settles every fetch and every read; the user is free to stop.
LiveSpec == Spec /\ WF_settled(Settle)

\* ---------------------------------------------------------- weather view
\* JSON values of the weather and geocoding responses: property names and
\* texts are one-element sequences holding the whole word; a number is held
\* in tenths, <<n>> standing for n / 10.
Obj(pairs) == [t |-> "obj", v |-> pairs]
Arr(elements) == [t |-> "arr", v |-> elements]
Tenths(n) == [t |-> "tenths", v |-> <<n>>]
WholeNumber(n) == Tenths(10 * n)
NaN == [t |-> "nan", v |-> <<>>]
Text(word) == Str(<<word>>)

\* x is a number
IsNumber(x) == x.t = "tenths"

\* Math.round(x): halves go up; undefined gives NaN, null gives 0
MathRound(x) ==
  CASE IsNumber(x) -> WholeNumber((x.v[1] + 5) \div 10)
    [] x.t = "null" -> WholeNumber(0)
    [] OTHER -> NaN

\* Math.round(x / 1000)
MathRoundOfThousandth(x) ==
  CASE IsNumber(x) -> WholeNumber((x.v[1] + 5000) \div 10000)
    [] x.t = "null" -> WholeNumber(0)
    [] OTHER -> NaN

\* the number a comparison takes x for; none for undefined
ComparedAs(x) ==
  CASE IsNumber(x) -> <<x.v[1]>>
    [] x.t = "null" -> <<0>>
    [] OTHER -> <<>>

\* code <= n
AtMost(code, n) == ComparedAs(code) # <<>> /\ ComparedAs(code)[1] <= 10 * n

\* getWeatherCondition
GetWeatherCondition(code) ==
  IF IsNumber(code) /\ code.v[1] = 0 THEN <<"Clear Sky">>
  ELSE IF AtMost(code, 3) THEN <<"Partly Cloudy">>
  ELSE IF AtMost(code, 48) THEN <<"Cloudy">>
  ELSE IF AtMost(code, 67) THEN <<"Light Rain">>
  ELSE IF AtMost(code, 77) THEN <<"Heavy Rain">>
  ELSE IF AtMost(code, 82) THEN <<"Rain Showers">>
  ELSE IF AtMost(code, 99) THEN <<"Thunderstorm">>
  ELSE <<"Haze">>

\* x[i] for an index i >= 0
GetIndex(x, i) ==
  IF x.t = "arr" /\ i < Len(x.v) THEN x.v[i + 1] ELSE Undef

\* a date of the ISO form YYYY-MM-DD, as [y, m, d]
IsoDate(y, m, d) == [y |-> y, m |-> m, d |-> d]

\* the days from 1970-01-01 to the date
DaysFromEpoch(date) ==
  LET y == IF date.m <= 2 THEN date.y - 1 ELSE date.y
      era == y \div 400
      yoe == y - era * 400
      mp == IF date.m > 2 THEN date.m - 3 ELSE date.m + 9
      doy == (153 * mp + 2) \div 5 + date.d - 1
      doe == yoe * 365 + yoe \div 4 - yoe \div 100 + doy
  IN era * 146097 + doe - 719468

WeekdayNames == <<"Sunday", "Monday", "Tuesday", "Wednesday", "Thursday", "Friday", "Saturday">>

\* new Date(date).toLocaleDateString('en-IN', { weekday: 'long' }): the date
\* is midnight UTC, so west of Greenwich it falls on the day before
WeekdayOf(date, westOfGreenwich) ==
  IF date.t # "date" THEN <<"Invalid Date">>
  ELSE <<WeekdayNames[((DaysFromEpoch(date.v[1]) + 4 - (IF westOfGreenwich THEN 1 ELSE 0)) % 7) + 1]>>

DateText(y, m, d) == [t |-> "date", v |-> <<IsoDate(y, m, d)>>]

\* the truthiness of a value of a response
TruthyValue(x) == IF IsNumber(x) THEN x.v[1] # 0 ELSE Truthy(x)

\* a || b
Or(a, b) == IF TruthyValue(a) THEN a ELSE b

UnknownLocation == Text("Unknown Location")
CurrentLocation == Text("Current Location")

\* the chain without its last operand
CityNameNoDefault(data) ==
  IF Nullish(data) THEN [threw |-> TRUE, v |-> Undef]
  ELSE LET address == GetProp(data, <<"address">>)
           city == IF Nullish(address) THEN Undef ELSE GetProp(address, <<"city">>)
           town == IF Nullish(address) THEN Undef ELSE GetProp(address, <<"town">>)
           village == IF Nullish(address) THEN Undef ELSE GetProp(address, <<"village">>)
       IN [threw |-> FALSE,
           v |-> Or(city, Or(town, Or(village, GetProp(data, <<"name">>))))]

\* data.address?.city || data.address?.town || data.address?.village ||
\* data.name || 'Unknown Location'; threw = the TypeError of data.address
\* when data is null
CityName(data) ==
  IF Nullish(data) THEN [threw |-> TRUE, v |-> Undef]
  ELSE LET address == GetProp(data, <<"address">>)
           city == IF Nullish(address) THEN Undef ELSE GetProp(address, <<"city">>)
           town == IF Nullish(address) THEN Undef ELSE GetProp(address, <<"town">>)
           village == IF Nullish(address) THEN Undef ELSE GetProp(address, <<"village">>)
       IN [threw |-> FALSE,
           v |-> Or(city, Or(town, Or(village, Or(GetProp(data, <<"name">>), UnknownLocation))))]

\* the fallback of the error callback and of the missing geolocation API
Delhi == [lat |-> <<"28.6139">>, lon |-> <<"77.2090">>, city |-> Text("Delhi")]

\* realWeatherData; threw = the TypeError of currentData.current.<field>
RealWeatherData(city, currentData) ==
  LET current == GetProp(currentData, <<"current">>) IN
    IF Nullish(currentData) \/ Nullish(current) THEN [threw |-> TRUE, v |-> <<>>]
    ELSE [threw |-> FALSE,
          v |-> <<[location |-> ToStr(city),
                   temperature |-> MathRound(GetProp(current, <<"temperature_2m">>)),
                   condition |-> GetWeatherCondition(GetProp(current, <<"weather_code">>)),
                   humidity |-> MathRound(GetProp(current, <<"relative_humidity_2m">>)),
                   windSpeed |-> MathRound(GetProp(current, <<"wind_speed_10m">>)),
                   visibility |-> MathRoundOfThousandth(GetProp(current, <<"visibility">>)),
                   pressure |-> MathRound(GetProp(current, <<"pressure_msl">>)),
                   feelsLike |-> MathRound(GetProp(current, <<"apparent_temperature">>)),
                   description |-> <<"Real-time weather data from Open-Meteo">>]>>]

DailyFields ==
  {<<"temperature_2m_max">>, <<"temperature_2m_min">>, <<"weather_code">>,
   <<"relative_humidity_2m_mean">>, <<"wind_speed_10m_max">>}

\* the callback of time.map for the entry of index i
ForecastDay(daily, date, i, westOfGreenwich) ==
  [date |-> WeekdayOf(date, westOfGreenwich),
   high |-> MathRound(GetIndex(GetProp(daily, <<"temperature_2m_max">>), i)),
   low |-> MathRound(GetIndex(GetProp(daily, <<"temperature_2m_min">>), i)),
   condition |-> GetWeatherCondition(GetIndex(GetProp(daily, <<"weather_code">>), i)),
   humidity |-> MathRound(GetIndex(GetProp(daily, <<"relative_humidity_2m_mean">>), i)),
   windSpeed |-> MathRound(GetIndex(GetProp(daily, <<"wind_speed_10m_max">>), i))]

\* realForecast; threw = a TypeError: forecastData.daily.time is not there or
\* has no map, or a field indexed by its callback is not there
RealForecast(forecastData, westOfGreenwich) ==
  LET daily == GetProp(forecastData, <<"daily">>)
      time == GetProp(daily, <<"time">>)
  IN
    IF Nullish(forecastData) \/ Nullish(daily) \/ time.t # "arr"
      THEN [threw |-> TRUE, v |-> <<>>]
    ELSE IF Len(time.v) > 0 /\ \E f \in DailyFields : Nullish(GetProp(daily, f))
      THEN [threw |-> TRUE, v |-> <<>>]
    ELSE [threw |-> FALSE,
          v |-> [i \in 1..Len(time.v) |-> ForecastDay(daily, time.v[i], i - 1, westOfGreenwich)]]

\* ---- what the browser and the services can answer
\* the body of a response: json = response.json() resolves, with data
Json(data) == [json |-> TRUE, data |-> data]
NotJson == [json |-> FALSE, data |-> Undef]

Positions ==
  { [latitude |-> <<"18.5204">>, longitude |-> <<"73.8567">>],
    [latitude |-> <<"-33.8688">>, longitude |-> <<"151.2093">>] }

GeocodeBodies ==
  { Json(Obj(<< <<<<"name">>, Text("Pune District")>>,
               <<<<"address">>, Obj(<< <<<<"city">>, Text("Pune")>> >>)>> >>)),
    Json(Obj(<< <<<<"address">>, Obj(<< <<<<"town">>, Text("Alibag")>> >>)>> >>)),
    Json(Obj(<< <<<<"address">>, Obj(<< <<<<"city">>, Str(<<>>)>>,
                                       <<<<"village">>, Text("Kihim")>> >>)>> >>)),
    Json(Obj(<< <<<<"name">>, Text("Raigad")>>, <<<<"address">>, Obj(<<>>)>> >>)),
    Json(Obj(<< <<<<"error">>, Text("Unable to geocode")>> >>)),
    Json(JsNull),
    NotJson }

CurrentBodies ==
  { Json(Obj(<< <<<<"current">>,
                  Obj(<< <<<<"temperature_2m">>, Tenths(254)>>,
                         <<<<"relative_humidity_2m">>, WholeNumber(60)>>,
                         <<<<"apparent_temperature">>, Tenths(265)>>,
                         <<<<"weather_code">>, WholeNumber(3)>>,
                         <<<<"wind_speed_10m">>, Tenths(74)>>,
                         <<<<"pressure_msl">>, Tenths(10132)>>,
                         <<<<"visibility">>, WholeNumber(24140)>> >>)>> >>)),
    Json(Obj(<< <<<<"current">>,
                  Obj(<< <<<<"temperature_2m">>, Tenths(0 - 25)>>,
                         <<<<"weather_code">>, WholeNumber(0)>>,
                         <<<<"pressure_msl">>, JsNull>> >>)>> >>)),
    Json(Obj(<< <<<<"error">>, [t |-> "true", v |-> <<>>]>> >>)),
    NotJson }

ForecastBodies ==
  { Json(Obj(<< <<<<"daily">>,
                  Obj(<< <<<<"time">>, Arr(<<DateText(2024, 1, 15), DateText(2024, 3, 1)>>)>>,
                         <<<<"temperature_2m_max">>, Arr(<<Tenths(301), Tenths(295)>>)>>,
                         <<<<"temperature_2m_min">>, Arr(<<Tenths(188), Tenths(-5)>>)>>,
                         <<<<"weather_code">>, Arr(<<WholeNumber(95), WholeNumber(100)>>)>>,
                         <<<<"relative_humidity_2m_mean">>, Arr(<<WholeNumber(55)>>)>>,
                         <<<<"wind_speed_10m_max">>, Arr(<<Tenths(125), Tenths(86)>>)>> >>)>> >>)),
    Json(Obj(<< <<<<"daily">>,
                  Obj(<< <<<<"time">>, Arr(<<DateText(2024, 1, 15)>>)>>,
                         <<<<"temperature_2m_max">>, Arr(<<Tenths(301)>>)>> >>)>> >>)),
    Json(Obj(<< <<<<"daily">>, Obj(<< <<<<"time">>, Arr(<<>>)>> >>)>> >>)),
    Json(Obj(<< <<<<"error">>, [t |-> "true", v |-> <<>>]>> >>)),
    NotJson }

\* ---- the operations of the weather view
\* setLocation(value)
SetLocation(value) ==
  /\ location' = <<value>>
  /\ setLocationCalls' = Append(setLocationCalls, value)

\* the lookup has reported `outcome`
Reported(outcome) == [lookup EXCEPT !.pc = "done", !.outcome = outcome, !.body = <<>>]

\* the catch block of the success callback
GeocodeFailed ==
  /\ SetLocation([lat |-> lookup.coords[1].latitude, lon |-> lookup.coords[1].longitude,
                  city |-> CurrentLocation])
  /\ lookup' = Reported("geocodeFailed")

\* the mount effect: getCurrentLocation up to the call of getCurrentPosition,
\* or its else branch where the browser has no geolocation
GetCurrentLocation ==
  /\ lookup.pc = "mount"
  /\ \E supported \in BOOLEAN :
       IF supported
       THEN /\ lookup' = [lookup EXCEPT !.pc = "position"]
            /\ UNCHANGED <<location, setLocationCalls>>
       ELSE /\ SetLocation(Delhi)
            /\ lookup' = Reported("unsupported")
  /\ UNCHANGED <<loading, weatherData, forecast, fetches, chatVars>>

\* the error callback of getCurrentPosition
PositionError ==
  /\ lookup.pc = "position"
  /\ SetLocation(Delhi)
  /\ lookup' = Reported("positionError")
  /\ UNCHANGED <<loading, weatherData, forecast, fetches, chatVars>>

\* the success callback of getCurrentPosition, up to the await of fetch
PositionSuccess ==
  /\ lookup.pc = "position"
  /\ \E position \in Positions :
       lookup' = [lookup EXCEPT !.pc = "fetch", !.coords = <<position>>]
  /\ UNCHANGED <<location, loading, weatherData, forecast, fetches, setLocationCalls, chatVars>>

\* the reverse geocoding fetch settles: it rejects (catch), or it resolves
\* and response.json() is awaited
GeocodeFetched ==
  /\ lookup.pc = "fetch"
  /\ \/ GeocodeFailed
     \/ /\ \E body \in GeocodeBodies :
             lookup' = [lookup EXCEPT !.pc = "json", !.body = <<body>>]
        /\ UNCHANGED <<location, setLocationCalls>>
  /\ UNCHANGED <<loading, weatherData, forecast, fetches, chatVars>>

\* response.json() settles: it rejects or the city name cannot be read
\* (catch), or the location is set with the city name
GeocodeParsed ==
  /\ lookup.pc = "json"
  /\ LET body == lookup.body[1]
         cityName == CityName(body.data)
     IN IF ~body.json \/ cityName.threw
        THEN GeocodeFailed
        ELSE /\ SetLocation([lat |-> lookup.coords[1].latitude,
                             lon |-> lookup.coords[1].longitude,
                             city |-> cityName.v])
             /\ lookup' = Reported("geocoded")
  /\ UNCHANGED <<loading, weatherData, forecast, fetches, chatVars>>

\* The effect on [location]: with a location set, fetchWeatherData runs up to
\* the await of Promise.all.  It runs once for every location set.
LocationEffect ==
  /\ location # <<>>
  /\ Len(fetches) < Len(setLocationCalls)
  /\ loading' = TRUE
  /\ fetches' = Append(fetches,
       [pc |-> "all", outcome |-> "none",
        lat |-> location[1].lat, lon |-> location[1].lon, city |-> location[1].city,
        current |-> <<>>, forecast |-> <<>>])
  /\ UNCHANGED <<location, weatherData, forecast, lookup, setLocationCalls, chatVars>>

\* the end of fetchWeatherData: finally { setLoading(false) }
FetchEnded(i, outcome) ==
  /\ loading' = FALSE
  /\ fetches' = [fetches EXCEPT ![i].pc = "done", ![i].outcome = outcome,
                                ![i].current = <<>>, ![i].forecast = <<>>]

\* the catch block of fetchWeatherData: the error is logged
FetchFailed(i) ==
  /\ FetchEnded(i, "failed")
  /\ UNCHANGED <<weatherData, forecast>>

\* Promise.all settles: one of the two requests failed (catch), or both
\* responses are there and currentResponse.json() is awaited
WeatherFetched(i) ==
  /\ fetches[i].pc = "all"
  /\ \/ FetchFailed(i)
     \/ /\ \E current \in CurrentBodies, daily \in ForecastBodies :
             fetches' = [fetches EXCEPT ![i].pc = "currentJson",
                                        ![i].current = <<current>>,
                                        ![i].forecast = <<daily>>]
        /\ UNCHANGED <<loading, weatherData, forecast>>
  /\ UNCHANGED <<location, lookup, setLocationCalls, chatVars>>

\* currentResponse.json() settles; forecastResponse.json() is awaited next
CurrentParsed(i) ==
  /\ fetches[i].pc = "currentJson"
  /\ IF ~fetches[i].current[1].json
     THEN FetchFailed(i)
     ELSE /\ fetches' = [fetches EXCEPT ![i].pc = "forecastJson"]
          /\ UNCHANGED <<loading, weatherData, forecast>>
  /\ UNCHANGED <<location, lookup, setLocationCalls, chatVars>>

\* forecastResponse.json() settles: the two results are built and set, or
\* building them throws (catch); finally
ForecastParsed(i) ==
  /\ fetches[i].pc = "forecastJson"
  /\ \E westOfGreenwich \in BOOLEAN :
       LET realWeatherData == RealWeatherData(fetches[i].city, fetches[i].current[1].data)
           realForecast == RealForecast(fetches[i].forecast[1].data, westOfGreenwich)
       IN IF ~fetches[i].forecast[1].json \/ realWeatherData.threw \/ realForecast.threw
          THEN FetchFailed(i)
          ELSE /\ weatherData' = realWeatherData.v
               /\ forecast' = realForecast.v
               /\ FetchEnded(i, "ok")
  /\ UNCHANGED <<location, lookup, setLocationCalls, chatVars>>

WeatherNext ==
  \/ GetCurrentLocation
  \/ PositionError
  \/ PositionSuccess
  \/ GeocodeFetched
  \/ GeocodeParsed
  \/ LocationEffect
  \/ \E i \in 1..Len(fetches) : WeatherFetched(i)
  \/ \E i \in 1..Len(fetches) : CurrentParsed(i)
  \/ \E i \in 1..Len(fetches) : ForecastParsed(i)

\* the weather view alone, the chat at rest
WeatherSpec == Init /\ [][WeatherNext]_vars

\* ------------------------------------------------------------ properties
CallIds == 1..Len(calls)

\* the invocation has returned normally and its locals are still there
Returned(i) == calls[i].pc = "done" /\ calls[i].outcome = "ok"

\* every line is a newline-terminated data line carrying the sentinel or a
\* JSON object
WellFormed(stream) ==
  /\ stream # <<>>
  /\ \A j \in 1..Len(stream) :
       stream[j].k \in {"delta", "done", "nocontent"} /\ stream[j].eol \in {LF, CRLF}

\* the loop state before the first read of invocation i
StartState(i) ==
  [textBuffer |-> <<>>, assistantContent |-> <<>>, streamDone |-> FALSE,
   msgs |-> calls[i].request]

\* the whole body of invocation i delivered by a single read
OneShot(i) ==
  ExtractLines([StartState(i) EXCEPT
                  !.textBuffer = Decode(<<>>, Body(calls[i].stream)).text], <<>>).st

\* C1: for a well-formed stream of newline-terminated data lines, whatever
\* the chunks the reads delivered, the final assistantContent and the final
\* transcript are those of the same stream delivered in one chunk.
C1_ChunkInvariance ==
  \A i \in CallIds :
    (Returned(i) /\ WellFormed(calls[i].stream)) =>
      /\ calls[i].assistantContent = OneShot(i).assistantContent
      /\ messages = OneShot(i).msgs

\* a well-formed stream of three lines has been read to its end in reads
\* that cut lines, and it produced text
C1_Witness ==
  \E i \in CallIds :
    /\ Returned(i) /\ WellFormed(calls[i].stream)
    /\ Len(calls[i].stream) >= 3
    /\ calls[i].split # "none"
    /\ calls[i].assistantContent # <<>>

\* n >= 1 data lines with a non-empty delta, then the sentinel
DeltasThenDone(stream) ==
  /\ Len(stream) >= 2
  /\ stream[Len(stream)].k = "done"
  /\ \A j \in 1..Len(stream) : stream[j].eol \in {LF, CRLF}
  /\ \A j \in 1..(Len(stream) - 1) : stream[j].k = "delta" /\ stream[j].c # <<>>

DeltaTexts(stream) ==
  Flatten([j \in 1..Len(stream) |-> IF stream[j].k = "delta" THEN stream[j].c ELSE <<>>])

\* C2: after a stream of n >= 1 non-empty deltas and the sentinel the
\* transcript is the transcript at the start of the stream (ending with the
\* user message) plus exactly one assistant message, placed last, holding the
\* deltas concatenated in stream order.
C2_OneAssistantMessage ==
  \A i \in CallIds :
    (Returned(i) /\ DeltasThenDone(calls[i].stream)) =>
      /\ calls[i].request[Len(calls[i].request)] = calls[i].userMessage
      /\ messages = Append(calls[i].request,
                           Msg("assistant", DeltaTexts(calls[i].stream)))

\* "Hel" then "lo" has given the one message "Hello"
C2_Witness ==
  \E i \in CallIds :
    /\ Returned(i) /\ DeltasThenDone(calls[i].stream)
    /\ Len(calls[i].stream) = 3
    /\ messages[Len(messages)] = Msg("assistant", <<"H", "e", "l", "l", "o">>)
    /\ Len(messages) = Len(calls[i].request) + 1

\* the state of invocation i when the sentinel has been processed: the
\* iteration that met it is the last one of the last read and nothing ran
\* after it
HaltedAtSentinel(i) ==
  LET c == calls[i] IN
    /\ c.pc = "done"
    /\ c.log # <<>>
    /\ c.log[Len(c.log)].kind = "done"
    /\ c.assistantContent = c.log[Len(c.log)].pre.assistantContent
    /\ messages = c.log[Len(c.log)].pre.msgs

\* C3: once a line with payload [DONE] has been processed streamDone is true,
\* the invocation reads no more, and neither its assistantContent nor the
\* transcript changes any more on its account, whatever follows the sentinel
\* in textBuffer or in the rest of the body.
C3_DoneHalts ==
  [][ /\ \A i \in CallIds :
           (\E n \in 1..Len(calls'[i].log) : calls'[i].log[n].kind = "done")
             => calls'[i].streamDone
      /\ \A i \in CallIds :
           (calls[i].streamDone /\ calls[i].pc # "gone") =>
             /\ HaltedAtSentinel(i)
             /\ calls'[i] \in {calls[i], Retire(calls[i])}
             /\ (messages' # messages => Len(calls') > Len(calls)) ]_vars

\* the sentinel was processed while a data line with content was behind it
\* in textBuffer, and bytes of the body were still unread
C3_Witness ==
  \E i \in CallIds :
    /\ calls[i].streamDone /\ calls[i].pc = "done"
    /\ HasLine(calls[i].textBuffer)
    /\ StartsWith(calls[i].textBuffer, DataPrefix)
    /\ calls[i].assistantContent = <<>>

\* the lines the claim C4 is about
PlainlySkipped(line) ==
  \/ line = <<>>
  \/ line[1] = ":"
  \/ Len(line) < 6
  \/ SubSeq(line, 1, 6) # DataPrefix

\* the loop state st with its first line taken out of textBuffer
LineTaken(st) ==
  [st EXCEPT !.textBuffer = SubSeq(st.textBuffer, IndexOf(st.textBuffer, NL) + 2,
                                   Len(st.textBuffer))]

\* iteration n of log left everything but textBuffer alone, removed the line,
\* and the loop went on to the next line if there was one
OnlyConsumed(log, n) ==
  /\ log[n].post = LineTaken(log[n].pre)
  /\ HasLine(log[n].post.textBuffer) => n < Len(log)

\* C4: a complete line that is empty, starts with ":" or does not start with
\* "data: " leaves assistantContent, streamDone and the transcript as they
\* were; it is only removed from textBuffer and the next line is extracted.
C4_SkippedLines ==
  \A i \in CallIds : \A n \in 1..Len(calls[i].log) :
    PlainlySkipped(calls[i].log[n].line) => OnlyConsumed(calls[i].log, n)

\* one read processed a comment, an empty line and a line of another field,
\* then the delta behind them
C4_Witness ==
  \E i \in CallIds :
    LET log == calls[i].log IN
      /\ Len(log) = 4
      /\ log[1].line[1] = ":" /\ log[2].line = <<>> /\ log[3].line[1] = "i"
      /\ log[4].kind = "delta"
      /\ calls[i].assistantContent = <<"a">>

\* the payload of a data line
Payload(line) == Trim(SliceFrom(line, 6))

\* the line is a data line whose payload parses and has no
\* choices[0].delta.content
ParsesWithoutContent(line) ==
  /\ StartsWith(line, DataPrefix)
  /\ Payload(line) # DoneSentinel
  /\ JsonParse(Payload(line)).ok
  /\ LET v == JsonParse(Payload(line)).v IN
       \/ v.t # "obj"
       \/ DeltaContent(v).v.t = "undef"

\* C5: a data line whose payload parses as JSON and carries no
\* choices[0].delta.content (an object without choices, an empty choices
\* list, a delta without content, a non-object such as null) leaves
\* assistantContent, streamDone and the transcript unchanged, is consumed from
\* textBuffer, and line extraction continues.
C5_NoContentUnchanged ==
  \A i \in CallIds : \A n \in 1..Len(calls[i].log) :
    ParsesWithoutContent(calls[i].log[n].line) => OnlyConsumed(calls[i].log, n)

\* the same for every parseable payload other than null: what the code does
C5_NonNullUnchanged ==
  \A i \in CallIds : \A n \in 1..Len(calls[i].log) :
    (ParsesWithoutContent(calls[i].log[n].line)
       /\ JsonParse(Payload(calls[i].log[n].line)).v.t # "null")
      => OnlyConsumed(calls[i].log, n)

\* the deltas of the lines before the first sentinel, in stream order
ContentUpToDone(stream) ==
  LET dones == {j \in 1..Len(stream) : stream[j].k = "done"}
      end == IF dones = {} THEN Len(stream) + 1
             ELSE CHOOSE j \in dones : \A k \in dones : j <= k
  IN DeltaTexts(SubSeq(stream, 1, end - 1))

\* C6: when some read ended inside the JSON payload of a data line, the
\* payload is put together again by the next reads and its delta is appended
\* exactly once: the final assistantContent is the concatenation of the
\* stream's deltas, which is also what a one-chunk delivery gives.
C6_SplitPayload ==
  \A i \in CallIds :
    (Returned(i) /\ WellFormed(calls[i].stream) /\ calls[i].split = "payload") =>
      /\ calls[i].assistantContent = ContentUpToDone(calls[i].stream)
      /\ calls[i].assistantContent = OneShot(i).assistantContent

\* "Hel" and "lo" arrived in reads that ended inside a payload
C6_Witness ==
  \E i \in CallIds :
    /\ Returned(i) /\ calls[i].split = "payload"
    /\ calls[i].assistantContent = <<"H", "e", "l", "l", "o">>

\* C7: when the response of the handshake is not successful or has no body,
\* streamChat has thrown before any read, and the transcript is then the
\* prior transcript, the user message and exactly one assistant message with
\* the fallback text.
C7_HandshakeFailure ==
  \A i \in CallIds :
    (calls[i].resp.arrived /\ (~calls[i].resp.ok \/ ~calls[i].resp.body)) =>
      /\ calls[i].pc = "done" /\ calls[i].outcome = "startError"
      /\ ~calls[i].hasRead
      /\ calls[i].textBuffer = <<>> /\ calls[i].assistantContent = <<>>
      /\ calls[i].request[Len(calls[i].request)] = calls[i].userMessage
      /\ messages = Append(calls[i].request, Msg("assistant", Fallback))

\* the second exchange got a response with an error status and a body
C7_Witness ==
  \E i \in CallIds :
    /\ i = 2
    /\ calls[i].resp = [arrived |-> TRUE, ok |-> FALSE, body |-> TRUE]
    /\ calls[i].outcome = "startError"
    /\ ~isLoading
    /\ messages[Len(messages)].content = Fallback

\* C8: when a read fails after at least one non-empty delta was applied, the
\* partial assistant message stays in the transcript with the content
\* accumulated so far, and exactly one fallback message follows it as a
\* separate entry.
C8_ReadFailureKeepsPartial ==
  \A i \in CallIds :
    (calls[i].pc = "done" /\ calls[i].outcome = "readError"
       /\ calls[i].assistantContent # <<>>) =>
      messages = calls[i].request
                   \o <<Msg("assistant", calls[i].assistantContent),
                        Msg("assistant", Fallback)>>

\* a read failed when "Hel" had been applied and "lo" had not
C8_Witness ==
  \E i \in CallIds :
    /\ calls[i].pc = "done" /\ calls[i].outcome = "readError"
    /\ calls[i].assistantContent = <<"H", "e", "l">>
    /\ Len(messages) = 4

UserMessages(msgs) == SelectSeq(msgs, LAMBDA m : m.role = "user")

\* C9: at most one streamChat invocation is in flight at any time, and while
\* isLoading is true no step starts a request or appends a user message.
C9_OneStreamAtATime ==
  [][ /\ Cardinality(InFlight) <= 1
      /\ InFlight # {} => isLoading
      /\ isLoading =>
           /\ Len(calls') = Len(calls)
           /\ UserMessages(messages') = UserMessages(messages) ]_vars

\* a stream is in flight, text has been typed and a further send is within
\* the bound: only the busy flag stands in the way of the send
C9_Witness ==
  /\ isLoading
  /\ Cardinality(InFlight) = 1
  /\ Trim(input) # <<>>
  /\ Len(calls) < MaxSends

\* a requeue is the last iteration of the inner loop of its read
RequeueEndsRead ==
  \A i \in CallIds : \A n \in 1..Len(calls[i].log) :
    calls[i].log[n].kind = "requeue" => n = Len(calls[i].log)

\* C10: every accepted send ends with the busy flag false and no invocation
\* left in flight, whatever the outcome; the inner loop ends on every read (a
\* requeued line is tried once per read).
C10_Terminates ==
  /\ []RequeueEndsRead
  /\ isLoading ~> (~isLoading /\ InFlight = {})

\* the stream ended while an unparseable line was at the head of textBuffer,
\* and the component is idle again
C10_Witness ==
  \E i \in CallIds :
    /\ Returned(i) /\ ~calls[i].streamDone
    /\ HasLine(calls[i].textBuffer)
    /\ ~isLoading /\ InFlight = {}

\* the request of every invocation continues the request of the one before
\* it and ends with its own user message; the k-th request holds k user
\* messages
RequestsGrow ==
  \A i \in CallIds :
    LET request == calls[i].request IN
      /\ request[1] = Msg("assistant", Greeting)
      /\ request[Len(request)] = calls[i].userMessage
      /\ Len(UserMessages(request)) = i
      /\ i > 1 => /\ Len(request) > Len(calls[i - 1].request)
                  /\ SubSeq(request, 1, Len(calls[i - 1].request)) = calls[i - 1].request

\* C11: the messages of the POST body of a send are the transcript as it
\* stood before the send, every entry in order (greeting, partial replies and
\* fallback messages of earlier exchanges included), followed by the new user
\* message as last element, nothing missing and nothing twice; it is also the
\* transcript right after the send.
C11_RequestIsTranscript ==
  /\ []RequestsGrow
  /\ [][ Len(calls') > Len(calls) =>
           /\ Len(calls') = Len(calls) + 1
           /\ calls'[Len(calls')].pc = "fetch"
           /\ calls'[Len(calls')].userMessage = Msg("user", input)
           /\ calls'[Len(calls')].request = Append(messages, Msg("user", input))
           /\ messages' = calls'[Len(calls')].request ]_vars

\* the second request carries the greeting, the first user message, the
\* partial reply "Hel" of the first exchange, its fallback message and the
\* second user message
C11_Witness ==
  /\ Len(calls) = 2
  /\ Len(calls[2].request) = 5
  /\ calls[2].request[3] = Msg("assistant", <<"H", "e", "l">>)
  /\ calls[2].request[4] = Msg("assistant", Fallback)
  /\ calls[2].request[5].role = "user"

\* invocation i is suspended at a read or has ended, its locals still there
AtRest(i) == calls[i].pc \in {"read", "done"}

\* the first line of a buffer that holds a complete line
HeadLine(textBuffer) == StripCR(SliceTo(textBuffer, IndexOf(textBuffer, NL)))

\* a data line that the try block hands to the catch block: its payload does
\* not parse, or reading choices off the parsed value throws
Unparseable(line) ==
  /\ StartsWith(line, DataPrefix)
  /\ Payload(line) # DoneSentinel
  /\ \/ ~JsonParse(Payload(line)).ok
     \/ JsonParse(Payload(line)).v.t = "null"

\* C12 as stated: whenever the invocation waits for a read or has returned,
\* textBuffer holds no complete newline-terminated line.
C12_NoCompleteLine ==
  \A i \in CallIds : AtRest(i) => ~HasLine(calls[i].textBuffer)

\* C12 as amended: whenever the invocation waits for a read or has returned,
\* textBuffer holds a complete line only after the inner loop ended in a
\* break: the sentinel was processed (streamDone) and the lines behind it are
\* left, or the first line of textBuffer is a data line the catch block
\* requeued.  Every other complete line has been removed and processed.
C12_CompleteLineOnlyAfterBreak ==
  \A i \in CallIds :
    (AtRest(i) /\ HasLine(calls[i].textBuffer)) =>
      \/ calls[i].streamDone
      \/ Unparseable(HeadLine(calls[i].textBuffer))

\* one read delivered three lines and part of a fourth; the three are gone
\* from textBuffer, which holds the incomplete line only
C12_Witness ==
  \E i \in CallIds :
    /\ calls[i].pc = "read" /\ calls[i].hasRead
    /\ Len(calls[i].log) = 3
    /\ calls[i].textBuffer # <<>>
    /\ ~HasLine(calls[i].textBuffer)

\* the transcript after invocation i built the reply `content`
WithReply(i, content) ==
  IF content = <<>> THEN calls[i].request
  ELSE Append(calls[i].request, Msg("assistant", content))

\* newline-terminated data lines, at least one of them with a payload that
\* will never parse
HasMalformedLine(stream) ==
  /\ \A j \in 1..Len(stream) :
       stream[j].k \in {"delta", "done", "nocontent", "bad"} /\ stream[j].eol \in {LF, CRLF}
  /\ \E j \in 1..Len(stream) : stream[j].k = "bad"

\* C13: a data line whose payload is malformed for good is dropped after one
\* retry and the lines behind it are processed: when the stream has been read
\* to its end, the reply holds every delta up to the sentinel, those behind
\* the malformed line included.
C13_MalformedLineDropped ==
  \A i \in CallIds :
    (Returned(i) /\ HasMalformedLine(calls[i].stream)) =>
      /\ calls[i].assistantContent = ContentUpToDone(calls[i].stream)
      /\ messages = WithReply(i, ContentUpToDone(calls[i].stream))

\* the last read of invocation c ended with the requeue of a line, and c
\* waits for the next read
Stalled(c) ==
  /\ c.pc = "read"
  /\ c.log # <<>>
  /\ c.log[Len(c.log)].kind = "requeue"

StalledLine(c) == c.log[Len(c.log)].line

\* C14: an unparseable data line is requeued at the front of textBuffer and
\* tried again on every later read, without any bound: a read that finds the
\* invocation stalled on such a line extracts that line alone, requeues it
\* and leaves the invocation stalled on it.  While it is at the front no later
\* line is processed: assistantContent and streamDone keep their values and
\* the stream makes no change to the transcript (a failing read still makes
\* handleSend append the fallback message).
C14_UnboundedRetry ==
  [][ \A i \in CallIds :
        (Stalled(calls[i]) /\ Len(calls') = Len(calls) /\ calls'[i] # calls[i]) =>
          /\ calls'[i].assistantContent = calls[i].assistantContent
          /\ ~calls'[i].streamDone
          /\ StartsWith(calls'[i].textBuffer, StalledLine(calls[i]) \o <<NL>>)
          /\ Len(calls'[i].textBuffer) >= Len(calls[i].textBuffer)
          /\ calls'[i].pc = "read" =>
               /\ Stalled(calls'[i])
               /\ Len(calls'[i].log) = 1
               /\ StalledLine(calls'[i]) = StalledLine(calls[i])
               /\ Len(calls'[i].textBuffer) > Len(calls[i].textBuffer)
          /\ messages' = IF calls'[i].outcome = "readError" THEN AppendFallback(messages)
                         ELSE messages ]_vars

\* The malformed line was complete in textBuffer before the last read (which
\* delivered at most BurstChunk bytes, the body not being at its end), so the
\* last read was a retry; a complete data line with the delta "b" is behind it
\* and the reply is still "a".
C14_Witness ==
  \E i \in CallIds :
    /\ Stalled(calls[i])
    /\ calls[i].rest # <<>>
    /\ Len(calls[i].textBuffer) >= Len(StalledLine(calls[i])) + 1 + BurstChunk
    /\ HasLine(SliceFrom(calls[i].textBuffer, Len(StalledLine(calls[i])) + 1))
    /\ calls[i].assistantContent = <<"a">>

\* C15: a stream never changes an entry that was in the transcript before it
\* started.  Its first non-empty delta finds the user message just sent as
\* last entry and appends a new assistant entry; every later update replaces
\* the content of that entry only.  So user messages, the greeting and the
\* replies and fallback messages of earlier exchanges never change, and the
\* transcript never gets shorter.
C15_EarlierEntriesKept ==
  [][ /\ Len(messages') >= Len(messages)
      /\ \A j \in 1..Len(messages) :
           messages'[j] # messages[j] =>
             /\ j = Len(messages) /\ Len(messages') = Len(messages)
             /\ messages[j].role = "assistant" /\ messages'[j].role = "assistant"
             /\ \E i \in CallIds :
                  /\ calls[i].pc = "read"
                  /\ j = Len(calls[i].request) + 1
                  /\ messages'[j].content = calls'[i].assistantContent
      /\ \A i \in CallIds :
           (calls[i].pc = "read" /\ calls[i].assistantContent = <<>>
              /\ Len(calls') = Len(calls) /\ calls'[i].assistantContent # <<>>) =>
             /\ messages = calls[i].request
             /\ messages[Len(messages)] = calls[i].userMessage
             /\ messages' = Append(messages, Msg("assistant", calls'[i].assistantContent)) ]_vars

\* the second stream has appended its reply "c" after its user message; the
\* entry before that user message is the fallback message of the first
\* exchange, which follows the partial reply "Hel"
C15_Witness ==
  /\ Len(calls) = 2
  /\ calls[2].assistantContent = <<"c">>
  /\ Len(messages) = 6
  /\ messages[3] = Msg("assistant", <<"H", "e", "l">>)
  /\ messages[4] = Msg("assistant", Fallback)
  /\ messages[5] = calls[2].userMessage
  /\ messages[6] = Msg("assistant", <<"c">>)

\* s is the start of t
IsPrefix(s, t) == Len(s) <= Len(t) /\ SubSeq(t, 1, Len(s)) = s

\* the text of the delta carried by a data line
LineDelta(line) == ToStr(DeltaContent(JsonParse(Payload(line)).v).v)

\* the reply of invocation i is made of the first deltas of its own stream,
\* in stream order, and it is the content of the entry after its request
ReplyOfOwnDeltas(i) ==
  /\ calls[i].pc = "fetch" => calls[i].assistantContent = <<>>
  /\ (AtRest(i) /\ calls[i].assistantContent # <<>>) =>
       /\ \E n \in 1..Len(calls[i].stream) :
            calls[i].assistantContent = DeltaTexts(SubSeq(calls[i].stream, 1, n))
       /\ Len(messages) > Len(calls[i].request)
       /\ messages[Len(calls[i].request) + 1] = Msg("assistant", calls[i].assistantContent)

\* every update applied in the last read put as content of the last entry
\* the content before it followed by the delta of its line
UpdatesExtend(i) ==
  \A n \in 1..Len(calls[i].log) :
    LET it == calls[i].log[n] IN
      it.kind = "delta" =>
        /\ LineDelta(it.line) # <<>>
        /\ it.post.assistantContent = it.pre.assistantContent \o LineDelta(it.line)
        /\ it.post.msgs[Len(it.post.msgs)] = Msg("assistant", it.post.assistantContent)
        /\ Len(it.post.msgs) = Len(calls[i].request) + 1

\* C16: while a stream is active, after each applied update the content of
\* the assistant message being built is the concatenation, in arrival order,
\* of the non-empty deltas of this stream processed so far; it starts empty
\* for every stream and holds no text of an earlier exchange, each update
\* extends the content before it, and the content never shrinks.
C16_ContentIsDeltasSoFar ==
  /\ [](\A i \in CallIds : ReplyOfOwnDeltas(i) /\ UpdatesExtend(i))
  /\ [][ \A i \in CallIds :
           Len(calls') = Len(calls) =>
             IsPrefix(calls[i].assistantContent, calls'[i].assistantContent) ]_vars

\* "Hel" was applied by one read and "lo" by a later one
C16_Witness ==
  \E i \in CallIds :
    /\ calls[i].assistantContent = <<"H", "e", "l", "l", "o">>
    /\ Len(calls[i].log) >= 1
    /\ calls[i].log[1].kind = "delta"
    /\ calls[i].log[1].pre.assistantContent = <<"H", "e", "l">>
    /\ messages[Len(messages)] = Msg("assistant", <<"H", "e", "l", "l", "o">>)

\* streamChat of invocation i failed
Failed(i) == calls[i].outcome \in {"startError", "readError"}

\* the entries exchange i has added to the transcript so far: from its user
\* message up to the user message of the next exchange
Added(i) ==
  SubSeq(messages, Len(calls[i].request),
         IF i < Len(calls) THEN Len(calls[i + 1].request) - 1 ELSE Len(messages))

\* one user message, the built reply if there is text, the fallback if
\* streamChat failed
Expected(i) ==
  <<calls[i].userMessage>>
    \o (IF calls[i].assistantContent # <<>>
        THEN <<Msg("assistant", calls[i].assistantContent)>> ELSE <<>>)
    \o (IF Failed(i) THEN <<Msg("assistant", Fallback)>> ELSE <<>>)

\* no line of the stream carries a non-empty delta
NoDeltas(stream) ==
  \A j \in 1..Len(stream) : stream[j].k = "delta" => stream[j].c = <<>>

\* the last read of invocation c applied a delta
AppliedDelta(c) == \E n \in 1..Len(c.log) : c.log[n].kind = "delta"

\* C17: whatever the stream and the outcome, an exchange adds exactly one
\* user message, at most one assistant message built from deltas and at most
\* one fallback message.  The built message is there if and only if some
\* non-empty delta was processed (a stream of comments, empty deltas and the
\* sentinel adds none), the fallback if and only if streamChat failed.
C17_OneExchange ==
  /\ [](\A i \in CallIds :
          /\ Added(i) = Expected(i)
          /\ (AtRest(i) /\ NoDeltas(calls[i].stream)) => calls[i].assistantContent = <<>>)
  /\ [][ \A i \in CallIds :
           (calls[i].pc = "read" /\ calls'[i] # calls[i]) =>
             /\ calls'[i].assistantContent # calls[i].assistantContent <=>
                  (calls'[i].rest # calls[i].rest /\ AppliedDelta(calls'[i]))
             /\ Len(messages') = Len(messages)
                  + (IF calls[i].assistantContent = <<>> /\ calls'[i].assistantContent # <<>>
                     THEN 1 ELSE 0)
                  + (IF Failed(i)' THEN 1 ELSE 0) ]_vars

\* a stream of a comment, an empty delta and the sentinel has been read to the
\* sentinel and the exchange has added the user message only
C17_Witness ==
  \E i \in CallIds :
    /\ Returned(i) /\ calls[i].streamDone
    /\ Len(calls[i].stream) = 3
    /\ calls[i].stream[2] = Delta(<<>>, LF)
    /\ Len(calls[i].log) >= 1
    /\ messages = calls[i].request

\* the deltas of the newline-terminated lines before the first sentinel
CompleteContent(stream) ==
  ContentUpToDone(SelectSeq(stream, LAMBDA l : l.eol # NoEol))

\* C18: when the body ends and no [DONE] line was processed, streamChat
\* returns normally: the step that meets the end changes neither the
\* transcript nor the locals and clears the busy flag, no fallback message is
\* appended, and the text left in textBuffer (a last line without newline, a
\* requeued line) is dropped without its delta being applied.
C18_EndWithoutSentinel ==
  /\ [](\A i \in CallIds :
          (Returned(i) /\ ~calls[i].streamDone) =>
            /\ messages = WithReply(i, calls[i].assistantContent)
            /\ (WellFormed(SelectSeq(calls[i].stream, LAMBDA l : l.eol # NoEol))
                  /\ \A j \in 1..Len(calls[i].stream) : calls[i].stream[j].k = "delta") =>
                 calls[i].assistantContent = CompleteContent(calls[i].stream))
  /\ [][ \A i \in CallIds :
           (calls[i].pc = "read" /\ calls[i].rest = <<>> /\ ~Failed(i)'
              /\ calls'[i] # calls[i]) =>
             /\ Returned(i)'
             /\ messages' = messages
             /\ ~isLoading'
             /\ calls'[i].textBuffer = calls[i].textBuffer
             /\ calls'[i].assistantContent = calls[i].assistantContent
             /\ calls'[i].streamDone = calls[i].streamDone ]_vars

\* the body ended after `a` and a data line with the delta "b" that has no
\* newline: the line is still in textBuffer and the reply is "a"
C18_Witness ==
  \E i \in CallIds :
    /\ Returned(i) /\ ~calls[i].streamDone
    /\ StartsWith(calls[i].textBuffer, DataPrefix)
    /\ ~HasLine(calls[i].textBuffer)
    /\ calls[i].assistantContent = <<"a">>
    /\ messages[Len(messages)] = Msg("assistant", <<"a">>)
    /\ ~isLoading

\* C19: a call of handleSend while the input is empty or whitespace only, or
\* while the busy flag is true, changes nothing: the transcript, the input
\* text and the busy flag stay as they are and no request is issued.
C19_RefusedSendIsNoOp ==
  [][ (sendCalled' /\ (Trim(input) = <<>> \/ isLoading)) =>
        /\ messages' = messages
        /\ input' = input
        /\ isLoading' = isLoading
        /\ calls' = calls ]_vars

\* handleSend has just been called with text in the input box while a stream
\* was being read (an accepted send leaves its invocation at the fetch): the
\* call was refused and the text is still there
C19_Witness ==
  /\ sendCalled
  /\ isLoading
  /\ input = <<"h", "i">>
  /\ \E i \in CallIds : calls[i].pc = "read" /\ calls[i].hasRead

\* C20: once the view is unmounted the read in flight is abandoned: no
\* further chunk is read or handled and no further update of the transcript
\* is attempted.
C20_AbandonedOnUnmount ==
  [][ ~mounted => (calls' = calls /\ messages' = messages) ]_vars

\* ---- C21
\* the location lookup has reported back
LookupReported == lookup.pc = "done"

\* no position was available to the lookup
NoPosition == lookup.outcome \in {"unsupported", "positionError"}

\* a city name that is not empty
NonEmptyName(city) == city.t = "str" /\ city.v # <<>> /\ TruthyValue(city)

\* the location the outcome of the lookup calls for
LocationAsReported(value) ==
  IF NoPosition
  THEN value = [lat |-> <<"28.6139">>, lon |-> <<"77.2090">>, city |-> Text("Delhi")]
  ELSE /\ value.lat = lookup.coords[1].latitude
       /\ value.lon = lookup.coords[1].longitude
       /\ NonEmptyName(value.city)
       /\ lookup.outcome = "geocodeFailed" => value.city = Text("Current Location")

\* the weather fetches that have ended
EndedFetches == {i \in 1..Len(fetches) : fetches[i].pc = "done"}

\* a step in which a weather fetch ends
FetchEnds == \E i \in 1..Len(fetches) : fetches[i].pc # "done" /\ fetches'[i].pc = "done"

\* C21: every outcome of the location lookup (geolocation unsupported,
\* geolocation error, position with reverse geocoding succeeding or failing)
\* sets a location exactly once, when it reports back: the default Delhi
\* coordinates when no position is available, otherwise the obtained
\* coordinates with a non-empty city name, the fixed one where the service
\* gives none; and the step that ends a weather fetch started from a location,
\* in success or in failure, leaves the loading flag false.
C21_LookupSetsLocationOnce ==
  /\ [](IF LookupReported
        THEN /\ Len(setLocationCalls) = 1
             /\ location = <<setLocationCalls[1]>>
             /\ LocationAsReported(setLocationCalls[1])
        ELSE setLocationCalls = <<>> /\ location = <<>>)
  /\ [](\A i \in 1..Len(fetches) :
          /\ i <= Len(setLocationCalls)
          /\ fetches[i].lat = setLocationCalls[i].lat
          /\ fetches[i].lon = setLocationCalls[i].lon
          /\ fetches[i].city = setLocationCalls[i].city)
  /\ []((EndedFetches # {} /\ EndedFetches = 1..Len(fetches)) => ~loading)
  /\ [][FetchEnds => ~loading']_vars

\* a position was obtained and the geocoding response held no name at all:
\* the location set has the obtained coordinates and the fixed name, and the
\* weather fetch started from it has failed and left the loading flag false
C21_Witness ==
  /\ LookupReported
  /\ lookup.outcome = "geocoded"
  /\ Len(setLocationCalls) = 1
  /\ location[1].lat = lookup.coords[1].latitude
  /\ location[1].city = Text("Unknown Location")
  /\ Len(fetches) = 1
  /\ fetches[1].pc = "done"
  /\ fetches[1].outcome = "failed"
  /\ ~loading

====
